---------------------------- MODULE Spec2Model ----------------------------
(***************************************************************************)
(* Model of the PASDV loan-appraisal core (src/python.py): the locale      *)
(* numeric parser and formatter, the .docx field extractor with its        *)
(* cross-field repair pass, the annuity / amortization engine and the      *)
(* metrics engine.                                                         *)
(*                                                                         *)
(* Python floats are modelled as exact rationals <<n, d>> (d > 0, lowest   *)
(* terms); NaN is the distinguished value NaN.  Strings are sequences of   *)
(* one-character strings.                                                  *)
(***************************************************************************)
EXTENDS Integers, Sequences, FiniteSets, TLC

VARIABLES
    comp,      \* which engine this behaviour exercises
    pc,        \* position of the running call
    raw,       \* text held by the money input field / string being parsed
    value,     \* float held by the money input field / parse result
    prev,      \* value the field held before its last re-render
    errored,   \* TRUE when the last call raised to its caller
    doc,       \* the uploaded file: reader availability, kind, rule captures
    data,      \* the record extract_from_docx returns
    loan,      \* build_amortization arguments
    pmt,       \* fixed monthly payment
    balance,   \* running balance of the schedule loop
    period,    \* loop index i of the schedule loop
    schedule,  \* rows appended so far
    d,         \* compute_metrics argument
    res        \* compute_metrics result

vars == <<comp, pc, raw, value, prev, errored, doc, data, loan, pmt, balance,
          period, schedule, d, res>>

-----------------------------------------------------------------------------
(* Bounds of the model *)

MaxLen == 3

MaxMatches == 3

MaxMonths == 3

MaxGroups == 2

-----------------------------------------------------------------------------
(* Exact rational arithmetic standing for float arithmetic *)

Abs(x) == IF x < 0 THEN -x ELSE x

RECURSIVE Gcd(_, _)
Gcd(a, b) == IF b = 0 THEN a ELSE Gcd(b, a % b)

Q(n, dd) ==
    LET s == IF dd < 0 THEN -1 ELSE 1
        g == Gcd(Abs(n), Abs(dd))
    IN  <<(s * n) \div g, (s * dd) \div g>>

Zero == <<0, 1>>

One == <<1, 1>>

FromInt(n) == <<n, 1>>

NaN == "nan"

isnan(x) == x = NaN

QNeg(a) == <<-a[1], a[2]>>

QAdd(a, b) ==
    LET g == Gcd(a[2], b[2])
    IN  Q(a[1] * (b[2] \div g) + b[1] * (a[2] \div g), (a[2] \div g) * b[2])

QSub(a, b) == QAdd(a, QNeg(b))

QMul(a, b) ==
    LET g1 == Gcd(Abs(a[1]), b[2])
        g2 == Gcd(Abs(b[1]), a[2])
        h1 == IF g1 = 0 THEN 1 ELSE g1
        h2 == IF g2 = 0 THEN 1 ELSE g2
    IN  Q((a[1] \div h1) * (b[1] \div h2), (a[2] \div h2) * (b[2] \div h1))

QInv(a) == IF a[1] < 0 THEN <<-a[2], -a[1]>> ELSE <<a[2], a[1]>>

QDiv(a, b) == QMul(a, QInv(b))

\* a <= b, by whole parts and then by the reciprocals of the fractional
\* parts, so that no product is formed.
RECURSIVE QLe(_, _)
QLe(a, b) ==
    LET fa == a[1] \div a[2]
        fb == b[1] \div b[2]
        ra == a[1] - fa * a[2]
        rb == b[1] - fb * b[2]
    IN  IF fa # fb THEN fa < fb
        ELSE IF ra = 0 THEN TRUE
        ELSE IF rb = 0 THEN FALSE
        ELSE QLe(<<b[2], rb>>, <<a[2], ra>>)

QLt(a, b) == ~QLe(b, a)

QMax(a, b) == IF QLt(a, b) THEN b ELSE a

QMin(a, b) == IF QLt(b, a) THEN b ELSE a

QAbs(a) == <<Abs(a[1]), a[2]>>

RECURSIVE QPow(_, _)
QPow(a, k) == IF k <= 0 THEN One ELSE QMul(a, QPow(a, k - 1))

IsWhole(a) == a[2] = 1

\* Python's round(x) / format ".0f": nearest integer, ties to even.
RoundHalfEven(a) ==
    LET f == a[1] \div a[2]
        twice == 2 * (a[1] - f * a[2])
    IN  IF twice < a[2] THEN f
        ELSE IF twice > a[2] THEN f + 1
        ELSE IF f % 2 = 0 THEN f ELSE f + 1

\* round(x, k): k decimals, ties to even.
RoundTo(a, scale) == Q(RoundHalfEven(QMul(a, FromInt(scale))), scale)


-----------------------------------------------------------------------------
(* Strings: sequences of one-character strings *)

Digits == {"0", "1", "2", "3", "4", "5", "6", "7", "8", "9"}

DigitVal(c) ==
    CASE c = "0" -> 0 [] c = "1" -> 1 [] c = "2" -> 2 [] c = "3" -> 3
      [] c = "4" -> 4 [] c = "5" -> 5 [] c = "6" -> 6 [] c = "7" -> 7
      [] c = "8" -> 8 [] c = "9" -> 9

DigitChar(n) ==
    CASE n = 0 -> "0" [] n = 1 -> "1" [] n = 2 -> "2" [] n = 3 -> "3"
      [] n = 4 -> "4" [] n = 5 -> "5" [] n = 6 -> "6" [] n = 7 -> "7"
      [] n = 8 -> "8" [] n = 9 -> "9"

RECURSIVE DigitsVal(_)
DigitsVal(s) ==
    IF s = <<>> THEN 0
    ELSE 10 * DigitsVal(SubSeq(s, 1, Len(s) - 1)) + DigitVal(s[Len(s)])

RECURSIVE Pow10(_)
Pow10(k) == IF k <= 0 THEN 1 ELSE 10 * Pow10(k - 1)

Contains(s, c) == \E i \in 1..Len(s) : s[i] = c

Count(s, c) == Cardinality({i \in 1..Len(s) : s[i] = c})

StartsWith(s, pat) == Len(s) >= Len(pat) /\ SubSeq(s, 1, Len(pat)) = pat

\* str.replace(old, new): leftmost non-overlapping occurrences, old non-empty.
RECURSIVE Replace(_, _, _)
Replace(s, old, new) ==
    IF s = <<>> THEN <<>>
    ELSE IF StartsWith(s, old)
         THEN new \o Replace(SubSeq(s, Len(old) + 1, Len(s)), old, new)
         ELSE <<s[1]>> \o Replace(Tail(s), old, new)

\* The Python value None where a string is expected.
NoneStr == <<"None">>

\* ASCII stand-ins for the two currency signs of line 74 (U+0111, U+20AB).
DongSign == "d"

DongSymbol == "$"

\* float(s) for a string without whitespace, letters or underscores:
\* [-] digits [. digits*] or [-] . digits; anything else raises ValueError.
FloatOk(s) ==
    LET body == IF s # <<>> /\ s[1] = "-" THEN Tail(s) ELSE s
    IN  /\ \A i \in 1..Len(body) : body[i] \in Digits \cup {"."}
        /\ Count(body, ".") <= 1
        /\ \E i \in 1..Len(body) : body[i] \in Digits

FloatVal(s) ==
    LET neg == s[1] = "-"
        body == IF neg THEN Tail(s) ELSE s
        dot == IF Contains(body, ".")
               THEN CHOOSE i \in 1..Len(body) : body[i] = "."
               ELSE Len(body) + 1
        digs == SelectSeq(body, LAMBDA c : c \in Digits)
        n == DigitsVal(digs)
    IN  Q(IF neg THEN -n ELSE n, Pow10(Len(body) + 1 - dot - (IF dot <= Len(body) THEN 1 ELSE 0)))

-----------------------------------------------------------------------------
(* Locale numeric parser and formatter *)

vnd_to_float_commas_dropped(s) ==
    IF s = NoneStr THEN Zero
    ELSE
    LET s1 == IF Contains(s, ",") /\ Contains(s, ".")
              THEN Replace(Replace(s, <<".">>, <<>>), <<",">>, <<".">>)
              ELSE Replace(Replace(s, <<".">>, <<>>), <<",">>, <<>>)
        s3 == SelectSeq(s1, LAMBDA c : c \in Digits \cup {".", "-"})
    IN  IF s3 # <<>> /\ FloatOk(s3) THEN FloatVal(s3) ELSE Zero

vnd_to_float(s) ==
    IF s = NoneStr THEN Zero
    ELSE
    LET s1 == IF Contains(s, ",") /\ Contains(s, ".")
              THEN Replace(Replace(s, <<".">>, <<>>), <<",">>, <<".">>)
              ELSE IF Contains(s, ",") /\ ~Contains(s, ".")
              THEN Replace(Replace(s, <<".">>, <<>>), <<",">>, <<".">>)
              ELSE Replace(s, <<".">>, <<>>)
        s2 == Replace(Replace(Replace(Replace(Replace(s1,
                  <<DongSign>>, <<>>), <<"V", "N", "D">>, <<>>),
                  <<"v", "n", DongSign>>, <<>>), <<DongSymbol>>, <<>>),
                  <<" ">>, <<>>)
        s3 == SelectSeq(s2, LAMBDA c : c \in Digits \cup {".", "-"})
    IN  IF s3 # <<>> /\ FloatOk(s3) THEN FloatVal(s3) ELSE Zero

RECURSIVE IntToDigits(_)
IntToDigits(n) ==
    IF n < 10 THEN <<DigitChar(n)>>
    ELSE IntToDigits(n \div 10) \o <<DigitChar(n % 10)>>

\* The "," option of the format mini-language: a comma before every group
\* of three digits counted from the right.
RECURSIVE GroupThousands(_)
GroupThousands(ds) ==
    IF Len(ds) <= 3 THEN ds
    ELSE GroupThousands(SubSeq(ds, 1, Len(ds) - 3)) \o <<",">>
         \o SubSeq(ds, Len(ds) - 2, Len(ds))

\* f"{x:,.0f}": round half to even, keep the sign of x (also of a negative
\* value that rounds to zero).
FormatGrouped0(a) ==
    LET n == RoundHalfEven(QAbs(a))
    IN  (IF a[1] < 0 THEN <<"-">> ELSE <<>>) \o GroupThousands(IntToDigits(n))

format_vnd_separator_kept(amount) == FormatGrouped0(amount)

format_vnd(amount) == Replace(FormatGrouped0(amount), <<",">>, <<".">>)

\* re.search(r"(\d+(?:\.\d+)?)", s): the leftmost digit run, with a fraction
\* when a dot and at least one digit follow it.
RECURSIVE DigitRun(_)
DigitRun(s) ==
    IF s # <<>> /\ s[1] \in Digits THEN <<s[1]>> \o DigitRun(Tail(s)) ELSE <<>>

percent_to_float(s) ==
    IF s = NoneStr THEN Zero
    ELSE
    LET t == Replace(s, <<",">>, <<".">>)
    IN  IF ~\E i \in 1..Len(t) : t[i] \in Digits THEN Zero
        ELSE
        LET i0 == CHOOSE i \in 1..Len(t) :
                      t[i] \in Digits /\ \A j \in 1..(i - 1) : t[j] \notin Digits
            whole == DigitRun(SubSeq(t, i0, Len(t)))
            rest == SubSeq(t, i0 + Len(whole), Len(t))
            frac == IF rest # <<>> /\ rest[1] = "." THEN DigitRun(Tail(rest)) ELSE <<>>
        IN  Q(DigitsVal(whole \o frac), Pow10(Len(frac)))

\* vn_money_input when the user leaves the rendered text untouched.
vn_money_input(val) == vnd_to_float(format_vnd(val))

-----------------------------------------------------------------------------
(* The money input field: vn_money_input re-rendered from its own value *)

Idle == "-"

Alphabet == {"0", "1", ".", ",", "-", " "}

RECURSIVE StringsUpTo(_)
StringsUpTo(n) ==
    IF n = 0 THEN {<<>>}
    ELSE LET shorter == StringsUpTo(n - 1)
         IN  shorter \cup {Append(s, c) : s \in shorter, c \in Alphabet}

ExampleInputs ==
    { NoneStr,
      <<"1", ".", "2", "3", "4", ".", "5", "6", "7">>,
      <<"1", ".", "2", "3", "4", ".", "5", "6", "7", ",", "8", "9">>,
      <<"1", ",", "2", "3", "4", ",", "5", "6", "7">>,
      <<"7", "0", ".", "0", "0", "0", " ", "V", "N", "D">>,
      <<"-", "2", ",", "5", " ", DongSign>>,
      <<"1", "2", DongSymbol, "x">> }

TypedInputs == StringsUpTo(MaxLen) \cup ExampleInputs

GroupVals == {0, 1, 50, 999}

RECURSIVE GroupedAmounts(_)
GroupedAmounts(k) ==
    IF k = 0 THEN {0}
    ELSE {a * 1000 + g : a \in GroupedAmounts(k - 1), g \in GroupVals}

WholeAmounts ==
    LET pos == GroupedAmounts(MaxGroups) \cup {1234567, 30000000}
    IN  pos \cup {-a : a \in pos}

InitNum ==
    /\ comp = "num"
    /\ pc = "idle"
    /\ raw = <<>>
    /\ value \in {FromInt(a) : a \in WholeAmounts}
    /\ prev = Zero
    /\ errored = FALSE
    /\ doc = Idle /\ data = Idle
    /\ loan = Idle /\ pmt = Idle /\ balance = Idle /\ period = 0
    /\ schedule = <<>>
    /\ d = Idle /\ res = Idle

\* A rerun of the page with the field untouched: the text shown is
\* format_vnd(value) and the field returns vnd_to_float of it.
Rerender ==
    /\ comp = "num"
    /\ raw' = format_vnd(value)
    /\ value' = vn_money_input(value)
    /\ prev' = value
    /\ pc' = "rendered"
    /\ UNCHANGED <<comp, errored, doc, data, loan, pmt, balance, period,
                   schedule, d, res>>

\* The user types a text into the field; the field returns its parse.
Edit ==
    /\ comp = "num"
    /\ \E t \in TypedInputs :
          /\ raw' = t
          /\ value' = vnd_to_float(t)
    /\ prev' = Zero
    /\ pc' = "parsed"
    /\ UNCHANGED <<comp, errored, doc, data, loan, pmt, balance, period,
                   schedule, d, res>>

NextNum == Rerender \/ Edit

SpecNum == InitNum /\ [][NextNum]_vars

-----------------------------------------------------------------------------
(* Claims about the locale numeric parser and formatter *)

\* The locale rule read off the text alone: with a single "," the digits
\* after it are the fraction (every "." is a thousands separator and is
\* dropped), without "," the digits form a whole number; a "-" counts only
\* in front of every digit and of the ","; anything else is unparsable and
\* gives 0.0.
LocaleValue(s) ==
    IF s = NoneStr THEN Zero
    ELSE
    LET sig == SelectSeq(s, LAMBDA c : c \in Digits \cup {",", "-"})
        digs == SelectSeq(s, LAMBDA c : c \in Digits)
        commas == Count(s, ",")
        minuses == Count(s, "-")
        neg == minuses = 1 /\ sig[1] = "-"
        comma == CHOOSE i \in 1..Len(sig) : sig[i] = ","
        fracDigits == IF commas = 1
                      THEN Cardinality({i \in (comma + 1)..Len(sig) : sig[i] \in Digits})
                      ELSE 0
    IN  IF commas > 1 \/ digs = <<>> \/ minuses > 1 \/ (minuses = 1 /\ ~neg)
        THEN Zero
        ELSE Q((IF neg THEN -1 ELSE 1) * DigitsVal(digs), Pow10(fracDigits))

\* C8: vnd_to_float never raises and follows the locale rule on every
\* input: with both "." and "," the dots are thousands separators and the
\* comma is the decimal point; with only "," it is the decimal point;
\* otherwise every "." is dropped; empty, None or unparsable text gives 0.0;
\* "1.234.567" gives 1234567 and "1.234.567,89" gives 1234567.89.
C8_LocaleRule ==
    (comp = "num" /\ pc = "parsed") =>
        /\ value = LocaleValue(raw)
        /\ value[2] > 0
        /\ raw \in {<<>>, NoneStr} => value = Zero
        /\ raw = <<"1", ".", "2", "3", "4", ".", "5", "6", "7">>
              => value = <<1234567, 1>>
        /\ raw = <<"1", ".", "2", "3", "4", ".", "5", "6", "7", ",", "8", "9">>
              => value = <<123456789, 100>>
        /\ raw = <<"0", ",", "1">> => value = <<1, 10>>
        /\ raw = <<"1", ".", "0">> => value = <<10, 1>>

C8_Witness ==
    /\ comp = "num" /\ pc = "parsed"
    /\ raw = <<"1", ".", "2", "3", "4", ".", "5", "6", "7", ",", "8", "9">>
    /\ value = <<123456789, 100>>

\* C10: for every whole-unit amount (positive, zero or negative) the field
\* re-rendered from its own value parses back to the same amount:
\* vnd_to_float(format_vnd(x)) = x, so repeated re-renders never drift.
C10_RoundTrip ==
    (comp = "num" /\ pc = "rendered" /\ IsWhole(prev)) =>
        /\ value = prev
        /\ vnd_to_float(raw) = prev

C10_Witness ==
    /\ comp = "num" /\ pc = "rendered"
    /\ prev = <<-1234567, 1>>
    /\ raw = <<"-", "1", ".", "2", "3", "4", ".", "5", "6", "7">>
    /\ value = prev

-----------------------------------------------------------------------------
(* Amortization engine: annuity_payment and build_amortization *)

\* A positive annual rate so small that the monthly rate r is below the unit
\* roundoff 2^-53 of a double (1e-13 percent, say): r is not 0, and 1 + r is
\* 1.0 exactly.  The pair <<1, 0>> is no rational of the model.
TinyRate == <<1, 0>>

\* What a call shows its caller when line 248 divides by 0.0.
ZeroDivisionError == <<"ZeroDivisionError">>

\* r = annual_rate_pct / 100.0 / 12.0
MonthlyRate(annual_rate_pct) ==
    IF annual_rate_pct = TinyRate THEN TinyRate
    ELSE QDiv(QDiv(annual_rate_pct, FromInt(100)), FromInt(12))

\* The float sum 1 + r.
OnePlus(r) == IF r = TinyRate THEN One ELSE QAdd(One, r)

annuity_payment_annual_rate(principal, annual_rate_pct, months) ==
    LET r == IF annual_rate_pct = TinyRate THEN TinyRate
             ELSE QDiv(annual_rate_pct, FromInt(100))
        growth == QPow(OnePlus(r), months)
        denominator == QSub(growth, One)
    IN  IF months <= 0 THEN Zero
        ELSE IF r = Zero THEN QDiv(principal, FromInt(months))
        ELSE IF denominator = Zero THEN ZeroDivisionError
        ELSE QDiv(QMul(QMul(principal, r), growth), denominator)

annuity_payment(principal, annual_rate_pct, months) ==
    LET r == MonthlyRate(annual_rate_pct)
        growth == QPow(OnePlus(r), months)
        denominator == QSub(growth, One)
    IN  IF months <= 0 THEN Zero
        ELSE IF r = Zero THEN QDiv(principal, FromInt(months))
        ELSE IF denominator = Zero THEN ZeroDivisionError
        ELSE QDiv(QMul(QMul(principal, r), growth), denominator)

\* interest = balance * r
Interest(bal, r) == QMul(bal, r)

\* principal_pay = pmt - interest
PrincipalPay(payment, interest) == QSub(payment, interest)

\* balance = max(0.0, balance - principal_pay)
NextBalance(bal, principal_pay) == QMax(Zero, QSub(bal, principal_pay))

\* One row of the schedule; the date is kept as its offset in days from
\* start_date.
ScheduleRow(i, interest, principal_pay, payment, bal) ==
    [ Ky      |-> i,
      Ngay    |-> 30 * i,
      TienLai |-> RoundHalfEven(interest),
      TienGoc |-> RoundHalfEven(principal_pay),
      TongTra |-> RoundHalfEven(payment),
      DuNo    |-> RoundHalfEven(bal) ]

PrincipalSet == {0, 1, 7, 1000, 12345}

\* Annual rates in percent: monthly rates 0, 1/4, 1/2 and 1.
RateSet == {0, 300, 600, 1200}

MonthsSet == (-1)..MaxMonths

InitAmort ==
    /\ comp = "amort"
    /\ pc = "idle"
    /\ loan \in [principal : {FromInt(p) : p \in PrincipalSet},
                 annual_rate_pct : {FromInt(x) : x \in RateSet} \cup {TinyRate},
                 months : MonthsSet]
    /\ pmt = Zero /\ balance = Zero /\ period = 0 /\ schedule = <<>>
    /\ raw = <<>> /\ value = Zero /\ prev = Zero /\ errored = FALSE
    /\ doc = Idle /\ data = Idle /\ d = Idle /\ res = Idle

\* build_amortization up to the loop: pmt = annuity_payment(...),
\* balance = principal, schedule = []; a ZeroDivisionError of line 248
\* leaves the function at line 256.
StartSchedule ==
    /\ comp = "amort" /\ pc = "idle"
    /\ LET payment == annuity_payment(loan.principal, loan.annual_rate_pct, loan.months)
       IN  IF payment = ZeroDivisionError
           THEN /\ errored' = TRUE
                /\ pc' = "done"
                /\ UNCHANGED <<pmt, balance>>
           ELSE /\ pmt' = payment
                /\ balance' = loan.principal
                /\ pc' = "loop"
                /\ UNCHANGED errored
    /\ period' = 0
    /\ schedule' = <<>>
    /\ UNCHANGED <<comp, raw, value, prev, doc, data, loan, d, res>>

\* One iteration of "for i in range(1, months + 1)".
SchedulePeriod ==
    /\ comp = "amort" /\ pc = "loop"
    /\ period < loan.months
    /\ LET i == period + 1
           interest == Interest(balance, MonthlyRate(loan.annual_rate_pct))
           principal_pay == PrincipalPay(pmt, interest)
           bal == NextBalance(balance, principal_pay)
       IN  /\ balance' = bal
           /\ period' = i
           /\ schedule' = Append(schedule,
                                 ScheduleRow(i, interest, principal_pay, pmt, bal))
    /\ UNCHANGED <<comp, pc, raw, value, prev, errored, doc, data, loan, pmt, d, res>>

\* The loop is exhausted (at once when months <= 0): the frame is returned.
FinishSchedule ==
    /\ comp = "amort" /\ pc = "loop"
    /\ period >= loan.months
    /\ pc' = "done"
    /\ UNCHANGED <<comp, raw, value, prev, errored, doc, data, loan, pmt,
                   balance, period, schedule, d, res>>

NextAmort == StartSchedule \/ SchedulePeriod \/ FinishSchedule

SpecAmort == InitAmort /\ [][NextAmort]_vars

-----------------------------------------------------------------------------
(* Claims about the amortization engine *)

RECURSIVE SumTienGoc(_)
SumTienGoc(rows) ==
    IF rows = <<>> THEN 0 ELSE rows[1].TienGoc + SumTienGoc(Tail(rows))

RateNonNegative(R) == R = TinyRate \/ QLe(Zero, R)

\* C3: for P > 0, R >= 0 and N > 0 build_amortization produces a schedule of
\* N periods whose remaining balance never increases from one period to the
\* next, whose last remaining balance is 0, and whose principal portions sum
\* to P within +/-N currency units.
C3_ScheduleInvariant ==
    (comp = "amort" /\ pc = "done" /\ QLt(Zero, loan.principal)
        /\ RateNonNegative(loan.annual_rate_pct) /\ loan.months > 0) =>
        /\ ~errored
        /\ Len(schedule) = loan.months
        /\ \A i \in 1..(Len(schedule) - 1) : schedule[i + 1].DuNo <= schedule[i].DuNo
        /\ schedule[Len(schedule)].DuNo = 0
        /\ Abs(SumTienGoc(schedule) - RoundHalfEven(loan.principal)) <= loan.months

-----------------------------------------------------------------------------
(* Field extractor: extract_from_docx *)

\* "Thang" stands for the Vietnamese word for month (non-ASCII in the source).
FIELD_DEFAULTS_all_zero ==
    [ ten_khach_hang      |-> <<>>,
      cccd                |-> <<>>,
      noi_cu_tru          |-> <<>>,
      so_dien_thoai       |-> <<>>,
      muc_dich_vay        |-> <<>>,
      tong_nhu_cau_von    |-> Zero,
      von_doi_ung         |-> Zero,
      so_tien_vay         |-> Zero,
      lai_suat_nam        |-> Zero,
      thoi_gian_vay_thang |-> 0,
      ky_han_tra          |-> <<>>,
      thu_nhap_thang      |-> Zero,
      gia_tri_tsdb        |-> Zero,
      tong_no_hien_tai    |-> Zero,
      loi_nhuan_rong_nam  |-> Zero,
      tong_von_dau_tu     |-> Zero ]

FIELD_DEFAULTS ==
    [ ten_khach_hang      |-> <<>>,
      cccd                |-> <<>>,
      noi_cu_tru          |-> <<>>,
      so_dien_thoai       |-> <<>>,
      muc_dich_vay        |-> <<>>,
      tong_nhu_cau_von    |-> Zero,
      von_doi_ung         |-> Zero,
      so_tien_vay         |-> Zero,
      lai_suat_nam        |-> FromInt(10),
      thoi_gian_vay_thang |-> 12,
      ky_han_tra          |-> <<"T", "h", "a", "n", "g">>,
      thu_nhap_thang      |-> Zero,
      gia_tri_tsdb        |-> Zero,
      tong_no_hien_tai    |-> Zero,
      loi_nhuan_rong_nam  |-> Zero,
      tong_von_dau_tu     |-> Zero ]

\* str.strip()
RECURSIVE LStrip(_)
LStrip(s) == IF s # <<>> /\ s[1] = " " THEN LStrip(Tail(s)) ELSE s

RECURSIVE RStrip(_)
RStrip(s) ==
    IF s # <<>> /\ s[Len(s)] = " " THEN RStrip(SubSeq(s, 1, Len(s) - 1)) ELSE s

Strip(s) == RStrip(LStrip(s))

\* s[:n]
Truncate(s, n) == SubSeq(s, 1, IF Len(s) < n THEN Len(s) ELSE n)

MucDichLimit == 200

\* int(m.group(1)) of a \d+ capture
ParseInt(s) == DigitsVal(s)

\* The patterns of the rule cascade, by the names the source gives them.
Patterns ==
    { "ten_pattern1", "ten_pattern2", "cccd_pattern", "noi_cu_tru_pattern",
      "sdt_pattern", "muc_dich_pattern1", "muc_dich_pattern2", "tnc_pattern",
      "von_du_pattern", "so_tien_vay_pattern", "thoi_han_pattern",
      "lai_suat_pattern", "thu_nhap_du_an_pattern", "thu_nhap_luong_pattern",
      "tong_thu_nhap_pattern", "tsdb_pattern1", "tsdb_pattern2",
      "loi_nhuan_pattern" }

M30 == <<"3", "0", ".", "0", "0", "0", ".", "0", "0", "0">>

M70 == <<"7", "0", ".", "0", "0", "0", ".", "0", "0", "0">>

M100 == <<"1", "0", "0", ".", "0", "0", "0", ".", "0", "0", "0">>

M150 == <<"1", "5", "0", ".", "0", "0", "0", ".", "0", "0", "0">>

\* What group(1) of each pattern can hold in the documents of the model.
Captures(p) ==
    CASE p \in {"ten_pattern1", "ten_pattern2"} -> {<<"A", "n", " ">>}
      [] p = "cccd_pattern" -> {<<"0", "1", "2", "3", "4", "5", "6", "7", "8">>}
      [] p = "noi_cu_tru_pattern" -> {<<"H", "N">>}
      [] p = "sdt_pattern" -> {<<"0", "9", "0", "1", "2", "3", "4", "5", "6", "7">>}
      [] p \in {"muc_dich_pattern1", "muc_dich_pattern2"} -> {<<"m", "u", "a", " ">>}
      [] p = "tnc_pattern" -> {<<"0">>, M100}
      [] p = "von_du_pattern" -> {<<"0">>, M30}
      [] p = "so_tien_vay_pattern" -> {M70}
      [] p = "thoi_han_pattern" -> {<<"2", "4">>}
      [] p = "lai_suat_pattern" -> {<<"8", ",", "5">>}
      [] p = "thu_nhap_du_an_pattern" -> {<<"0">>, <<"5", ".", "0", "0", "0">>}
      [] p = "thu_nhap_luong_pattern" -> {<<"1", "0", ".", "0", "0", "0">>}
      [] p = "tong_thu_nhap_pattern" -> {<<"1", "5", ".", "0", "0", "0">>}
      [] p = "tsdb_pattern1" -> {<<".">>, M150}
      [] p = "tsdb_pattern2" -> {M100}
      [] p = "loi_nhuan_pattern" -> {<<"6", "0", ".", "0", "0", "0">>}

RECURSIVE SubsetsUpTo(_, _)
SubsetsUpTo(S, k) ==
    IF k = 0 THEN {{}}
    ELSE LET smaller == SubsetsUpTo(S, k - 1)
         IN  smaller \cup {s \cup {x} : s \in smaller, x \in S}

\* re.search results over full_text: the patterns that match, with group(1).
HitSets ==
    UNION { {h \in [S -> UNION {Captures(p) : p \in S}] :
                \A p \in S : h[p] \in Captures(p)}
            : S \in SubsetsUpTo(Patterns, MaxMatches) }

Hit(h, p) == p \in DOMAIN h

\* The rule cascade, lines 129-228, applied to a copy of FIELD_DEFAULTS.
ApplyRulesTo(rec, h) ==
    LET money(p) == vnd_to_float(h[p])
        thu_nhap_du_an == IF Hit(h, "thu_nhap_du_an_pattern")
                          THEN money("thu_nhap_du_an_pattern") ELSE Zero
        thu_nhap_luong == IF Hit(h, "thu_nhap_luong_pattern")
                          THEN money("thu_nhap_luong_pattern") ELSE Zero
    IN  [ rec EXCEPT
          !.ten_khach_hang =
              IF Hit(h, "ten_pattern1") THEN Strip(h["ten_pattern1"])
              ELSE IF Hit(h, "ten_pattern2") THEN Strip(h["ten_pattern2"])
              ELSE @,
          !.cccd = IF Hit(h, "cccd_pattern") THEN Strip(h["cccd_pattern"]) ELSE @,
          !.noi_cu_tru =
              IF Hit(h, "noi_cu_tru_pattern") THEN Strip(h["noi_cu_tru_pattern"]) ELSE @,
          !.so_dien_thoai = IF Hit(h, "sdt_pattern") THEN Strip(h["sdt_pattern"]) ELSE @,
          !.muc_dich_vay =
              IF Hit(h, "muc_dich_pattern1") THEN Strip(h["muc_dich_pattern1"])
              ELSE IF Hit(h, "muc_dich_pattern2")
                   THEN Truncate(Strip(h["muc_dich_pattern2"]), MucDichLimit)
              ELSE @,
          !.tong_nhu_cau_von = IF Hit(h, "tnc_pattern") THEN money("tnc_pattern") ELSE @,
          !.von_doi_ung = IF Hit(h, "von_du_pattern") THEN money("von_du_pattern") ELSE @,
          !.so_tien_vay =
              IF Hit(h, "so_tien_vay_pattern") THEN money("so_tien_vay_pattern") ELSE @,
          !.thoi_gian_vay_thang =
              IF Hit(h, "thoi_han_pattern") THEN ParseInt(h["thoi_han_pattern"]) ELSE @,
          !.lai_suat_nam =
              IF Hit(h, "lai_suat_pattern") THEN percent_to_float(h["lai_suat_pattern"])
              ELSE @,
          !.thu_nhap_thang =
              IF Hit(h, "tong_thu_nhap_pattern") THEN money("tong_thu_nhap_pattern")
              ELSE QAdd(thu_nhap_luong, thu_nhap_du_an),
          !.gia_tri_tsdb =
              IF Hit(h, "tsdb_pattern1") THEN money("tsdb_pattern1")
              ELSE IF Hit(h, "tsdb_pattern2") THEN money("tsdb_pattern2")
              ELSE @,
          !.loi_nhuan_rong_nam =
              IF Hit(h, "loi_nhuan_pattern") THEN money("loi_nhuan_pattern")
              ELSE IF QLt(Zero, thu_nhap_du_an) THEN QMul(thu_nhap_du_an, FromInt(12))
              ELSE @ ]

\* Lines 230-231.
RepairCapitalNeed(rec) ==
    IF rec.tong_nhu_cau_von = Zero
       /\ QLt(Zero, QAdd(rec.von_doi_ung, rec.so_tien_vay))
    THEN [rec EXCEPT !.tong_nhu_cau_von = QAdd(rec.von_doi_ung, rec.so_tien_vay)]
    ELSE rec

\* Lines 233-234.
RepairInvestment(rec) ==
    IF rec.tong_von_dau_tu = Zero
    THEN [rec EXCEPT !.tong_von_dau_tu = rec.tong_nhu_cau_von]
    ELSE rec

\* Lines 236-237.
RepairCollateral(rec) ==
    IF rec.gia_tri_tsdb = Zero /\ QLt(Zero, rec.tong_nhu_cau_von)
    THEN [rec EXCEPT !.gia_tri_tsdb = rec.tong_nhu_cau_von]
    ELSE rec

RepairPass_capital_need_last(rec) ==
    RepairCapitalNeed(RepairCollateral(RepairInvestment(rec)))

RepairPass(rec) == RepairCollateral(RepairInvestment(RepairCapitalNeed(rec)))

\* The uploaded bytes: a readable .docx package, no bytes at all, or bytes
\* that are no .docx package.
FileKinds == {"docx", "empty", "corrupt"}

InitExtract ==
    /\ comp = "extract"
    /\ pc = "idle"
    /\ \E reader \in BOOLEAN, kind \in FileKinds, h \in HitSets :
          /\ (kind # "docx" => h = << >>)
          /\ doc = [reader |-> reader, kind |-> kind, hits |-> h]
    /\ data = Idle
    /\ errored = FALSE
    /\ raw = <<>> /\ value = Zero /\ prev = Zero
    /\ loan = Idle /\ pmt = Idle /\ balance = Idle /\ period = 0
    /\ schedule = <<>>
    /\ d = Idle /\ res = Idle

\* Lines 118-120: data = FIELD_DEFAULTS.copy(); without the reader the copy
\* is returned at once.
ReturnDefaults ==
    /\ comp = "extract" /\ pc = "idle"
    /\ ~doc.reader
    /\ data' = FIELD_DEFAULTS
    /\ pc' = "done"
    /\ UNCHANGED <<comp, raw, value, prev, errored, doc, loan, pmt, balance,
                   period, schedule, d, res>>

\* Lines 118-127 with the reader: Document(bio) opens the package, or
\* raises on bytes that are no package; nothing catches it.
OpenDocument ==
    /\ comp = "extract" /\ pc = "idle"
    /\ doc.reader
    /\ IF doc.kind = "docx"
       THEN /\ data' = FIELD_DEFAULTS
            /\ pc' = "opened"
            /\ UNCHANGED errored
       ELSE /\ data' = Idle
            /\ errored' = TRUE
            /\ pc' = "done"
    /\ UNCHANGED <<comp, raw, value, prev, doc, loan, pmt, balance, period,
                   schedule, d, res>>

\* Lines 129-228: every rule of the cascade, in order.
ApplyRules ==
    /\ comp = "extract" /\ pc = "opened"
    /\ data' = ApplyRulesTo(data, doc.hits)
    /\ pc' = "matched"
    /\ UNCHANGED <<comp, raw, value, prev, errored, doc, loan, pmt, balance,
                   period, schedule, d, res>>

\* Lines 230-239: the repair pass, then return data.
RepairAndReturn ==
    /\ comp = "extract" /\ pc = "matched"
    /\ data' = RepairPass(data)
    /\ pc' = "done"
    /\ UNCHANGED <<comp, raw, value, prev, errored, doc, loan, pmt, balance,
                   period, schedule, d, res>>

NextExtract == ReturnDefaults \/ OpenDocument \/ ApplyRules \/ RepairAndReturn

SpecExtract == InitExtract /\ [][NextExtract]_vars

-----------------------------------------------------------------------------
(* Claims about the field extractor *)

NumericFields ==
    { "tong_nhu_cau_von", "von_doi_ung", "so_tien_vay", "lai_suat_nam",
      "thu_nhap_thang", "gia_tri_tsdb", "tong_no_hien_tai",
      "loi_nhuan_rong_nam", "tong_von_dau_tu" }

TextFields ==
    { "ten_khach_hang", "cccd", "noi_cu_tru", "so_dien_thoai", "muc_dich_vay",
      "ky_han_tra" }

AllFields == NumericFields \cup TextFields \cup {"thoi_gian_vay_thang"}

\* The call came back without a rule having matched: the reader is missing,
\* or the document was read and no pattern matched anywhere.
NothingMatched ==
    /\ comp = "extract" /\ pc = "done" /\ ~errored
    /\ (~doc.reader \/ DOMAIN doc.hits = {})

\* C2: extract_from_docx is total: for any bytes, also empty bytes and bytes
\* that are no valid document, it returns a record with every field of
\* FIELD_DEFAULTS and never raises to its caller.
C2_ExtractionTotal ==
    (comp = "extract" /\ pc = "done") =>
        /\ ~errored
        /\ DOMAIN data = AllFields

\* C4: the repair pass runs once in the order total capital need, total
\* investment, collateral value, each step seeing the previous result: when
\* the extracted total capital need is 0 and equity + loan amount > 0, the
\* returned record has total capital need = equity + loan amount, total
\* investment equal to that sum, and collateral value equal to it when no
\* rule set the collateral.
C4_RepairOrder ==
    [][ (comp = "extract" /\ pc = "matched" /\ pc' = "done"
            /\ data.tong_nhu_cau_von = Zero
            /\ QLt(Zero, QAdd(data.von_doi_ung, data.so_tien_vay)))
        => LET total == QAdd(data.von_doi_ung, data.so_tien_vay)
           IN  /\ data'.tong_nhu_cau_von = total
               /\ data.tong_von_dau_tu = Zero => data'.tong_von_dau_tu = total
               /\ data.gia_tri_tsdb = Zero => data'.gia_tri_tsdb = total
               /\ data'.von_doi_ung = data.von_doi_ung
               /\ data'.so_tien_vay = data.so_tien_vay ]_vars

C4_Witness ==
    /\ comp = "extract" /\ pc = "done" /\ ~errored
    /\ DOMAIN doc.hits = {"von_du_pattern", "so_tien_vay_pattern"}
    /\ data.von_doi_ung = FromInt(30000000)
    /\ data.so_tien_vay = FromInt(70000000)
    /\ data.tong_nhu_cau_von = FromInt(100000000)
    /\ data.tong_von_dau_tu = FromInt(100000000)
    /\ data.gia_tri_tsdb = FromInt(100000000)

\* C9 as stated: the record extraction starts from, and returns when the
\* reader is unavailable or no rule matches anywhere, has every numeric
\* field (annual interest rate and term in months included) zero and every
\* text field empty.
C9_AllZeroDefaults ==
    (NothingMatched \/ (comp = "extract" /\ pc = "opened")) =>
        /\ \A f \in NumericFields : data[f] = Zero
        /\ data.thoi_gian_vay_thang = 0
        /\ \A f \in TextFields : data[f] = <<>>

\* C9 as amended: that record is FIELD_DEFAULTS: every numeric field zero
\* and every text field empty except annual interest rate 10.0, term 12
\* months and repayment period "Thang".
C9_DefaultsRecord ==
    (NothingMatched \/ (comp = "extract" /\ pc = "opened")) =>
        /\ DOMAIN data = AllFields
        /\ \A f \in NumericFields \ {"lai_suat_nam"} : data[f] = Zero
        /\ data.lai_suat_nam = <<10, 1>>
        /\ data.thoi_gian_vay_thang = 12
        /\ \A f \in TextFields \ {"ky_han_tra"} : data[f] = <<>>
        /\ data.ky_han_tra = <<"T", "h", "a", "n", "g">>

C9_Witness ==
    /\ NothingMatched
    /\ doc.reader /\ doc.kind = "docx"
    /\ data.lai_suat_nam = <<10, 1>>
    /\ data.thu_nhap_thang = Zero

-----------------------------------------------------------------------------
(* Metrics engine: compute_metrics *)

\* The floor 1e-9 of lines 305, 319, 320 and 322.
EpsDen == 1000000000

EPS == <<1, EpsDen>>

RelTol == <<2, 100>>

AbsTolUnits == 1000000

\* math.isclose(a, b, rel_tol=..., abs_tol=...) on finite values.
isclose_rel_only(a, b, rel_tol, abs_tol) ==
    \/ a = b
    \/ LET diff == QAbs(QSub(b, a))
       IN  \/ QLe(diff, QAbs(QMul(rel_tol, b)))
           \/ QLe(diff, QAbs(QMul(rel_tol, a)))

isclose(a, b, rel_tol, abs_tol) ==
    \/ a = b
    \/ LET diff == QAbs(QSub(b, a))
       IN  \/ QLe(diff, QAbs(QMul(rel_tol, b)))
           \/ QLe(diff, QAbs(QMul(rel_tol, a)))
           \/ QLe(diff, abs_tol)

\* Lines 325-336: the weighted terms of the ratios that are not NaN.
ScoreOf(r) ==
    LET t1 == IF isnan(r.DSR) THEN Zero
              ELSE QMul(QMax(Zero, QSub(One, QMin(One, r.DSR))), <<1, 4>>)
        t2 == IF isnan(r.LTV) THEN Zero
              ELSE QMul(QMax(Zero, QSub(One, QMin(One, r.LTV))), <<1, 4>>)
        t3 == IF isnan(r.E_over_C) THEN Zero
              ELSE QMul(QMin(One, QDiv(r.E_over_C, <<3, 10>>)), <<1, 5>>)
        t4 == IF isnan(r.CFR) THEN Zero
              ELSE QMul(QMax(Zero, QMin(One, r.CFR)), <<1, 5>>)
        t5 == IF isnan(r.Coverage) THEN Zero
              ELSE QMul(QMin(One, QDiv(r.Coverage, <<3, 2>>)), <<1, 10>>)
    IN  RoundTo(QAdd(QAdd(QAdd(QAdd(t1, t2), t3), t4), t5), 1000)

compute_metrics(dd) ==
    LET payment == annuity_payment(dd.so_tien_vay, dd.lai_suat_nam, dd.thoi_gian_vay_thang)
        thu_nhap_thang == QMax(EPS, dd.thu_nhap_thang)
        tong_nhu_cau == dd.tong_nhu_cau_von
        von_doi_ung == dd.von_doi_ung
        so_tien_vay == dd.so_tien_vay
        gia_tri_tsdb == dd.gia_tri_tsdb
        tong_no_hien_tai == dd.tong_no_hien_tai
        loi_nhuan_rong_nam == dd.loi_nhuan_rong_nam
        tong_von_dau_tu == dd.tong_von_dau_tu
        thu_nhap_nam == QMul(thu_nhap_thang, FromInt(12))
        ratios ==
          [ PMT_thang |-> payment,
            DSR |-> IF QLt(Zero, thu_nhap_thang) THEN QDiv(payment, thu_nhap_thang) ELSE NaN,
            E_over_C |-> IF QLt(Zero, tong_nhu_cau) THEN QDiv(von_doi_ung, tong_nhu_cau)
                         ELSE NaN,
            LTV |-> IF QLt(Zero, gia_tri_tsdb) THEN QDiv(so_tien_vay, gia_tri_tsdb) ELSE NaN,
            Debt_over_Income |->
                QDiv(QAdd(tong_no_hien_tai, so_tien_vay), QMax(EPS, thu_nhap_nam)),
            ROI |-> IF QLt(Zero, tong_von_dau_tu)
                    THEN QDiv(loi_nhuan_rong_nam, QMax(EPS, tong_von_dau_tu)) ELSE NaN,
            CFR |-> IF QLt(Zero, thu_nhap_thang)
                    THEN QDiv(QSub(thu_nhap_thang, payment), thu_nhap_thang) ELSE NaN,
            Coverage |-> IF QLt(Zero, so_tien_vay)
                         THEN QDiv(gia_tri_tsdb, QMax(EPS, so_tien_vay)) ELSE NaN,
            Phuong_an_hop_ly |->
                isclose(tong_nhu_cau, QAdd(von_doi_ung, so_tien_vay), RelTol,
                        FromInt(AbsTolUnits)) ]
    IN  [ PMT_thang |-> ratios.PMT_thang,
          DSR |-> ratios.DSR,
          E_over_C |-> ratios.E_over_C,
          LTV |-> ratios.LTV,
          Debt_over_Income |-> ratios.Debt_over_Income,
          ROI |-> ratios.ROI,
          CFR |-> ratios.CFR,
          Coverage |-> ratios.Coverage,
          Phuong_an_hop_ly |-> ratios.Phuong_an_hop_ly,
          Score_AI_demo |-> ScoreOf(ratios) ]

\* The applications of the model, in currency units: plans of realistic size
\* with an income, and plans of a few units with or without one.  The amounts
\* come from the money fields, which return what vnd_to_float parses, a
\* leading "-" included.
LargeApplications ==
    [ tong_nhu_cau_von    : {FromInt(x) : x \in {0, 100000000}},
      von_doi_ung         : {FromInt(x) : x \in {-30000000, 0, 30000000, 30500000}},
      so_tien_vay         : {FromInt(x) : x \in {0, 70000000, 76000000}},
      lai_suat_nam        : {FromInt(x) : x \in {0, 1200}},
      thoi_gian_vay_thang : 0..MaxMonths,
      thu_nhap_thang      : {FromInt(15000000)},
      gia_tri_tsdb        : {FromInt(x) : x \in {0, 150000000}},
      tong_no_hien_tai    : {FromInt(x) : x \in {0, 20000000}},
      loi_nhuan_rong_nam  : {FromInt(x) : x \in {0, 60000000}},
      tong_von_dau_tu     : {FromInt(x) : x \in {0, 100000000}} ]

SmallApplications ==
    [ tong_nhu_cau_von    : {FromInt(x) : x \in {0, 3}},
      von_doi_ung         : {FromInt(x) : x \in {-1, 0, 1}},
      so_tien_vay         : {FromInt(x) : x \in {0, 1}},
      lai_suat_nam        : {FromInt(x) : x \in {0, 1200}},
      thoi_gian_vay_thang : 0..MaxMonths,
      thu_nhap_thang      : {FromInt(x) : x \in {0, 2}},
      gia_tri_tsdb        : {FromInt(x) : x \in {0, 2}},
      tong_no_hien_tai    : {FromInt(x) : x \in {0, 5}},
      loi_nhuan_rong_nam  : {FromInt(x) : x \in {0, 1}},
      tong_von_dau_tu     : {FromInt(x) : x \in {0, 2}} ]

\* The quotients by the 1e-9 floor stay within 32-bit integers only for
\* payments of a few units: applications without income are taken with a
\* payment of 0, 1/2, 1 or 2.
WithinWidth(dd) ==
    LET payment == annuity_payment(dd.so_tien_vay, dd.lai_suat_nam, dd.thoi_gian_vay_thang)
    IN  dd.thu_nhap_thang = Zero => (payment[1] <= 2 /\ payment[2] <= 2)

Applications == LargeApplications \cup {dd \in SmallApplications : WithinWidth(dd)}

InitMetrics ==
    /\ comp = "metrics"
    /\ pc = "idle"
    /\ d \in Applications
    /\ res = Idle
    /\ raw = <<>> /\ value = Zero /\ prev = Zero /\ errored = FALSE
    /\ doc = Idle /\ data = Idle
    /\ loan = Idle /\ pmt = Idle /\ balance = Idle /\ period = 0
    /\ schedule = <<>>

ComputeMetrics ==
    /\ comp = "metrics" /\ pc = "idle"
    /\ res' = compute_metrics(d)
    /\ pc' = "done"
    /\ UNCHANGED <<comp, raw, value, prev, errored, doc, data, loan, pmt,
                   balance, period, schedule, d>>

NextMetrics == ComputeMetrics

SpecMetrics == InitMetrics /\ [][NextMetrics]_vars

-----------------------------------------------------------------------------
(* Claims about the metrics engine *)

\* C1: every ratio other than Debt-to-Income whose denominator is zero is
\* reported as NaN: DSR and CFR when monthly income is 0, LTV when
\* collateral value is 0, EquityToCost when total capital need is 0, ROI
\* when total investment is 0, CollateralCoverage when loan amount is 0.
C1_ZeroDenominatorIsNaN ==
    (comp = "metrics" /\ pc = "done") =>
        /\ d.thu_nhap_thang = Zero => (isnan(res.DSR) /\ isnan(res.CFR))
        /\ d.gia_tri_tsdb = Zero => isnan(res.LTV)
        /\ d.tong_nhu_cau_von = Zero => isnan(res.E_over_C)
        /\ d.tong_von_dau_tu = Zero => isnan(res.ROI)
        /\ d.so_tien_vay = Zero => isnan(res.Coverage)

ScoredRatios == {"DSR", "LTV", "E_over_C", "CFR", "Coverage"}

\* Weights in thousandths: 0.25, 0.25, 0.20, 0.20, 0.10.
WeightMilli(r) ==
    CASE r = "DSR" -> 250 [] r = "LTV" -> 250 [] r = "E_over_C" -> 200
      [] r = "CFR" -> 200 [] r = "Coverage" -> 100

RECURSIVE SumWeights(_)
SumWeights(S) ==
    IF S = {} THEN 0
    ELSE LET r == CHOOSE x \in S : TRUE
         IN  WeightMilli(r) + SumWeights(S \ {r})

\* C7: the score is the sum of the weighted terms, each clamped to [0,1],
\* over exactly the ratios that are defined (not NaN), without
\* renormalizing: for every input it lies between 0 and the sum of the
\* weights of the defined ratios.
C7_ScoreWithinWeights ==
    (comp = "metrics" /\ pc = "done") =>
        LET defined == {r \in ScoredRatios : ~isnan(res[r])}
        IN  /\ QLe(Zero, res.Score_AI_demo)
            /\ QLe(res.Score_AI_demo, Q(SumWeights(defined), 1000))

-----------------------------------------------------------------------------
(* The whole core: each behaviour exercises one engine *)

Init == InitNum \/ InitExtract \/ InitAmort \/ InitMetrics

Next == NextNum \/ NextExtract \/ NextAmort \/ NextMetrics

Spec == Init /\ [][Next]_vars

=============================================================================
